---- MODULE Spec2Model ----
(***************************************************************************)
(* Model of the time-trigger task runner: process_tasks of src/main.py     *)
(* (pure Python, requests + zoneinfo) and of                               *)
(* src/python/time_trigger_task/__init__.py (pytz + the task_io bindings). *)
(* Time is counted in seconds; a trigger_time string is modelled by what   *)
(* strptime makes of it (missing, malformed, or a naive wall-clock value). *)
(***************************************************************************)
EXTENDS Integers, Sequences, FiniteSets, TLC

\* ---------------------------------------------------------------- constants
TOLERANCE_MINUTES == 30
MAX_RETRIES == 3
SecondsPerMinute == 60

\* ------------------------------------------------------------------- bounds
NumRecords == 2
MaxWriteFails == 1

\* Instants the wall clock passes through (seconds): around the trigger
\* instant 60 and around the end of its 30 minute window (60 + 1800).
Instants == {59, 60, 1860, 1861}
FirstInstant == CHOOSE t \in Instants : \A u \in Instants : t <= u

\* HTTP status codes the transport may answer with.
Statuses == {199, 200, 299, 300, 500}

Implementations == {"main", "pkg"}

VARIABLES
    impl,           \* which of the two source files runs
    env_keys,       \* the environment variable that holds the keys
    store,          \* the configuration store: sequence of task records
    now,            \* the wall clock (an instant, in seconds)
    pc,             \* position of process_tasks
    config_files,   \* the sorted list of discovered records
    idx,            \* position of the for loop in config_files
    data,           \* the record read for the current iteration
    current_time,   \* current_time of the current iteration
    attempt,        \* loop variable of the retry loop
    success,        \* success flag of the retry loop
    files_changed,  \* files_changed flag
    summary,        \* the end-of-run line printed by this invocation
    secret_keys,    \* the keys loaded by this invocation
    payload,        \* device_keys of the payload of the current iteration
    resolved,       \* per record: device_keys last resolved for it
    verdict,        \* per record: how its latest visit classified it
    outcome,        \* per record: result of the delivery of its latest visit
                    \* ("Retrying": under way, after one that failed)
    evalId,         \* the record current_time was last taken for (0: none)
    sentId,         \* the record the retry loop last ran for (0: none)
    attempts,       \* requests sent for sentId in this invocation
    delays,         \* retry sleeps made for sentId in this invocation
    saves,          \* persist calls made for sentId in this invocation
    lastKind,       \* what the latest request for sentId was answered with
    ok2xx,          \* per record: 2xx answers over all invocations
    wfail,          \* per record: failed persist calls over all invocations
    stored,         \* a record was written back by this invocation
    tally           \* requests sent and sleeps made by this invocation, all
                    \* records together (counted where tally.on is set)

vars == <<impl, env_keys, store, now, pc, config_files, idx, data,
          current_time, attempt, success, files_changed, summary, secret_keys,
          payload, resolved, verdict, outcome, evalId, sentId, attempts,
          delays, saves, lastKind, ok2xx, wfail, stored, tally>>

prog == <<pc, config_files, idx, data, current_time, attempt, success,
          files_changed, summary, secret_keys, payload>>
ghost == <<resolved, verdict, outcome, evalId, sentId, attempts, delays,
           saves, lastKind, ok2xx, wfail, stored, tally>>

\* ------------------------------------------------------------ task records
\* A record: executed flag, executed_at (empty: absent), what the
\* trigger_time string is (missing, malformed, or the naive wall-clock value
\* it parses to), the "timezone" field ("absent": the key is not there) and
\* body.device_keys, the declared keys (empty also when the key is absent).
Rec(e, k, w, tz) ==
    [executed |-> e, executed_at |-> IF e THEN <<0>> ELSE <<>>,
     trigger_time |-> [kind |-> k, wall |-> w], timezone |-> tz,
     device_keys |-> <<>>]

\* Records the store starts with: as authored (executed false, no
\* executed_at) or as left by an earlier successful run (executed true
\* together with executed_at).
InitialRecords ==
    {Rec(TRUE, "malformed", 0, "Mars/Phobos"),
     Rec(FALSE, "missing", 0, "absent"),
     Rec(FALSE, "malformed", 0, "UTC"),
     Rec(FALSE, "malformed", 0, "Mars/Phobos"),
     Rec(FALSE, "ok", 60, "UTC"),
     Rec(FALSE, "ok", 60, "absent"),
     Rec(FALSE, "ok", 60, "Mars/Phobos")}

NoData == [executed |-> FALSE, executed_at |-> <<>>,
           trigger_time |-> [kind |-> "missing", wall |-> 0],
           timezone |-> "absent", device_keys |-> <<>>]

\* ------------------------------------------------------------- time zones
\* data.get("timezone", "Asia/Shanghai")
TzName(d) == IF d.timezone = "absent" THEN "Asia/Shanghai" ELSE d.timezone

\* What looking the zone name up does: "ok", or "KeyError" for a name the tz
\* database does not hold (ZoneInfoNotFoundError and
\* pytz.UnknownTimeZoneError are KeyErrors).
ZoneInfo(name) ==
    IF name \in {"UTC", "Asia/Shanghai"} THEN "ok" ELSE "KeyError"

pytz_timezone(name) ==
    IF name \in {"UTC", "Asia/Shanghai"} THEN "ok" ELSE "KeyError"

\* UTC offset of a known zone, in seconds.
UtcOffset(name) == IF name = "Asia/Shanghai" THEN 28800 ELSE 0

\* datetime.strptime(trigger_time_str, TIME_FORMAT)
strptime(tt) == IF tt.kind = "ok" THEN "ok" ELSE "ValueError"

\* The instant a naive wall-clock value denotes in a zone.
Localize(wall, name) == wall - UtcOffset(name)

\* current_time.strftime(TIME_FORMAT): the wall-clock reading in the zone.
strftime(t, name) == t + UtcOffset(name)

\* IsExecuted without the test: no record counts as executed.
IsExecutedNever(d) == FALSE

\* ------------------------------------------------------------- evaluation
IsExecuted(d) == d.executed = TRUE

\* Outcome of the try block that parses the trigger time: "ok", a caught
\* ValueError, or an exception that leaves process_tasks.
ParseTimes(d) ==
    IF impl = "main"
    THEN IF strptime(d.trigger_time) = "ValueError" THEN "ValueError"
         ELSE ZoneInfo(TzName(d))
    ELSE IF pytz_timezone(TzName(d)) # "ok" THEN pytz_timezone(TzName(d))
         ELSE strptime(d.trigger_time)

\* diff.total_seconds() of current_time - trigger_time
DiffSeconds(d, t) == t - Localize(d.trigger_time.wall, TzName(d))

\* InWindow with the upper end of the window left out.
InWindowOpen(diff) ==
    0 <= diff /\ diff < TOLERANCE_MINUTES * SecondsPerMinute

\* 0 <= diff_minutes <= TOLERANCE_MINUTES with diff_minutes = seconds / 60
InWindow(diff) ==
    0 <= diff /\ diff <= TOLERANCE_MINUTES * SecondsPerMinute

\* Classify with the two branches of the else part exchanged.
ClassifySwapped(diff) ==
    IF InWindow(diff) THEN "Eligible"
    ELSE IF diff < 0 THEN "Expired" ELSE "NotYetDue"

Classify(diff) ==
    IF InWindow(diff) THEN "Eligible"
    ELSE IF diff < 0 THEN "NotYetDue" ELSE "Expired"

\* Evaluate with the executed test moved behind the parsing of the times.
EvaluateTimesFirst(d, t) ==
    IF d.trigger_time.kind = "missing" THEN "Inert"
    ELSE IF ParseTimes(d) = "ValueError" THEN "ParseError"
    ELSE IF ParseTimes(d) = "KeyError" THEN "Uncaught"
    ELSE IF IsExecuted(d) THEN "AlreadyDone"
    ELSE Classify(DiffSeconds(d, t))

\* One iteration of the for loop up to the window test, for a record read.
Evaluate(d, t) ==
    IF IsExecuted(d) THEN "AlreadyDone"
    ELSE IF d.trigger_time.kind = "missing" THEN "Inert"
    ELSE IF ParseTimes(d) = "ValueError" THEN "ParseError"
    ELSE IF ParseTimes(d) = "KeyError" THEN "Uncaught"
    ELSE Classify(DiffSeconds(d, t))

Classified == {"NotYetDue", "Eligible", "Expired"}

\* Dispatches with the body run for every record that reaches the test.
DispatchesClassified(v) == v \in Classified

\* The body of the window test runs: payload, retry loop, completion.
Dispatches(v) == v = "Eligible"

\* ---------------------------------------------------------------- delivery
\* What one request comes back with: a response with a status code, or a
\* transport fault (an exception of the transport).
Outcomes ==
    {[fault |-> FALSE, status |-> s] : s \in Statuses}
        \cup {[fault |-> TRUE, status |-> 0]}

\* IsSuccess with the upper end 300 included.
IsSuccessUpTo300(status) == 200 <= status /\ status <= 300

\* 200 <= status_code < 300
IsSuccess(status) == 200 <= status /\ status < 300

\* Answer with an except clause that does not catch the fault.
AnswerFaultEscapes(o) ==
    IF o.fault THEN "raise"
    ELSE IF IsSuccess(o.status) THEN "success" ELSE "failure"

\* What the body of the retry loop makes of an answer: "success" (break),
\* "failure" (a status outside the range, or a fault the except clause
\* catches: the loop goes on) or "raise" (an exception leaves the loop).
Answer(o) ==
    IF o.fault THEN "failure"
    ELSE IF IsSuccess(o.status) THEN "success" ELSE "failure"

\* What the answer was, whatever the runner makes of it.
Kind(o) ==
    IF o.fault THEN "fault"
    ELSE IF o.status \in 200..299 THEN "2xx" ELSE "non2xx"

\* RetryLeft with <= for <: a sleep and one more pass after the last.
RetryLeftInclusive(a) == a <= MAX_RETRIES

\* attempt < MAX_RETRIES: another attempt follows, after a sleep
RetryLeft(a) == a < MAX_RETRIES

\* Stamp without the assignment to executed.
StampTimeOnly(d, t) ==
    [d EXCEPT !.executed_at = <<strftime(t, TzName(d))>>]

\* data["executed"] = True; data["executed_at"] = current_time.strftime(...)
Stamp(d, t) ==
    [d EXCEPT !.executed = TRUE, !.executed_at = <<strftime(t, TzName(d))>>]

\* Whether an exception of the persist call is caught inside process_tasks.
SaveErrorCaught == impl = "pkg"

\* ------------------------------------------------------------- credentials
\* What the environment variable holds: nothing ("unset"), text that is not
\* JSON ("malformed"), a JSON list of keys ("list"), a JSON object from alias
\* to key ("map", its pairs in the order they are written) or another JSON
\* value ("other").  What load_secret_keys returns has one of the last three.
Keys(form, keys, map) == [form |-> form, keys |-> keys, map |-> map]
Pair(a, v) == [alias |-> a, value |-> v]

\* os.environ.get(ENV_KEY_NAME, "[]") and the except clause: an empty list
\* for a variable that is not set or is not JSON.
load_secret_keys(env) ==
    IF env.form \in {"unset", "malformed"} THEN Keys("list", <<>>, <<>>) ELSE env

Range(q) == {q[i] : i \in DOMAIN q}

\* list(set(...)): the values once each, in an order the language leaves open.
Orderings(S) ==
    {q \in [1..Cardinality(S) -> S] :
        \A i, j \in 1..Cardinality(S) : q[i] = q[j] => i = j}

\* ResolveList without set(): the plain concatenation.
ResolveListConcat(declared, keys) ==
    IF keys # <<>> THEN {declared \o keys} ELSE {declared}

\* secret_keys is a list: the lists payload["device_keys"] may become.
ResolveList(declared, keys) ==
    IF keys # <<>> THEN Orderings(Range(declared \o keys)) ELSE {declared}

\* item in secret_keys, secret_keys[item], secret_keys.values()
MapHas(m, a) == \E i \in DOMAIN m : m[i].alias = a
MapGet(m, a) == m[CHOOSE i \in DOMAIN m : m[i].alias = a].value
MapValues(m) == [i \in DOMAIN m |-> m[i].value]

\* ResolveMap that looks a substituted value up once more.
ResolveMapChained(declared, m) ==
    {IF declared = <<>> /\ m # <<>>
     THEN MapValues(m)
     ELSE [i \in DOMAIN declared |->
              IF MapHas(m, declared[i])
              THEN IF MapHas(m, MapGet(m, declared[i]))
                   THEN MapGet(m, MapGet(m, declared[i]))
                   ELSE MapGet(m, declared[i])
              ELSE declared[i]]}

\* ResolveMap that makes the resolved values unique, as the list form does.
ResolveMapUnique(declared, m) ==
    IF declared = <<>> /\ m # <<>>
    THEN {MapValues(m)}
    ELSE Orderings({IF MapHas(m, declared[i]) THEN MapGet(m, declared[i])
                    ELSE declared[i] : i \in DOMAIN declared})

\* secret_keys is a dict: resolved_list.
ResolveMap(declared, m) ==
    {IF declared = <<>> /\ m # <<>>
     THEN MapValues(m)
     ELSE [i \in DOMAIN declared |->
              IF MapHas(m, declared[i]) THEN MapGet(m, declared[i])
              ELSE declared[i]]}

\* The values payload["device_keys"] may have once the keys are injected.
Resolve(declared, sk) ==
    CASE sk.form = "list" -> ResolveList(declared, sk.keys)
      [] sk.form = "map" -> ResolveMap(declared, sk.map)
      [] OTHER -> {declared}

\* DataAfterInjection with payload sharing the body of data (no deepcopy).
DataAliased(d, p) == [d EXCEPT !.device_keys = p]

\* data once payload["device_keys"] is assigned p: payload is a deep copy of
\* the body, so data is as it was read.
DataAfterInjection(d, p) == d

\* ----------------------------------------------------------------- actions
\* f[1] + ... + f[n]
RECURSIVE SumTo(_, _)
SumTo(f, n) == IF n = 0 THEN 0 ELSE f[n] + SumTo(f, n - 1)

ZeroOf(n) == [i \in 1..n |-> 0]
Tally(on, sent, slept) == [on |-> on, sent |-> sent, slept |-> slept]
NoneOf(n) == [i \in 1..n |-> "none"]
EmptyOf(n) == [i \in 1..n |-> <<>>]

Init ==
    /\ impl \in Implementations
    /\ env_keys = Keys("unset", <<>>, <<>>)
    /\ \E n \in 0..NumRecords : store \in [1..n -> InitialRecords]
    /\ now = FirstInstant
    /\ pc = "idle"
    /\ config_files = <<>>
    /\ idx = 1
    /\ data = NoData
    /\ current_time = 0
    /\ attempt = 0
    /\ success = FALSE
    /\ files_changed = FALSE
    /\ summary = "none"
    /\ secret_keys = Keys("list", <<>>, <<>>)
    /\ payload = <<>>
    /\ resolved = EmptyOf(Len(store))
    /\ verdict = NoneOf(Len(store))
    /\ outcome = NoneOf(Len(store))
    /\ evalId = 0
    /\ sentId = 0
    /\ attempts = 0
    /\ delays = 0
    /\ saves = 0
    /\ lastKind = "none"
    /\ ok2xx = ZeroOf(Len(store))
    /\ wfail = ZeroOf(Len(store))
    /\ stored = FALSE
    /\ tally = Tally(FALSE, 0, 0)

\* A record is identified by the rank of its path among the paths of the
\* store in lexicographic order: 1 is the least path.
\* glob.glob(...): the paths of the store, in an order the file system picks.
Glob == Orderings(DOMAIN store)

\* sorted that leaves the list as it was listed.
SortedAsListed(q) == q

\* sorted(...): the entries of q (no two equal) in ascending order.
sorted(q) ==
    [i \in DOMAIN q |->
        CHOOSE x \in Range(q) : Cardinality({y \in Range(q) : y < x}) = i - 1]

\* task_io.list_configs(CONFIG_DIR): the paths of the store in lexicographic
\* order.
list_configs == [i \in 1..Len(store) |-> i]

\* The lists config_files may be assigned.
ListConfigs ==
    IF impl = "main" THEN {sorted(g) : g \in Glob} ELSE {list_configs}

\* The clock moves on (never back): between two invocations, and within one
\* between the answer to a request and the write of the record.
Tick ==
    /\ pc \in {"idle", "done", "aborted", "save"}
    /\ \E t \in Instants : t > now /\ now' = t
    /\ UNCHANGED <<impl, env_keys, store, prog, ghost>>

\* process_tasks is invoked: load the keys, list the records.
StartRun ==
    /\ pc \in {"idle", "done", "aborted"}
    /\ config_files' \in ListConfigs
    /\ pc' = IF config_files' = <<>> THEN "done" ELSE "loop"
    /\ idx' = 1
    /\ files_changed' = FALSE
    /\ summary' = "none"
    /\ data' = NoData
    /\ current_time' = 0
    /\ attempt' = 0
    /\ success' = FALSE
    /\ evalId' = 0
    /\ sentId' = 0
    /\ attempts' = 0
    /\ delays' = 0
    /\ saves' = 0
    /\ lastKind' = "none"
    /\ secret_keys' = load_secret_keys(env_keys)
    /\ payload' = <<>>
    /\ stored' = FALSE
    /\ tally' = Tally(tally.on, 0, 0)
    /\ UNCHANGED <<impl, env_keys, store, now, resolved, verdict, outcome,
                   ok2xx, wfail>>

\* The head of one iteration: read the record, skip it, classify it.  The
\* locals of the previous iteration (data, current_time, attempt, success) are
\* dead here: every path assigns them before it reads them, so the model
\* forgets them, and with them the counts kept for the previous record.
NextRecord ==
    /\ pc = "loop"
    /\ idx <= Len(config_files)
    /\ \E readOk \in BOOLEAN :
        LET id == config_files[idx]
            d == store[id]
            v == IF readOk THEN Evaluate(d, now) ELSE "ReadError"
        IN  /\ verdict' = [verdict EXCEPT ![id] = v]
            /\ outcome' = [outcome EXCEPT ![id] =
                    IF Dispatches(v) /\ @ = "Failed" THEN "Retrying" ELSE "none"]
            /\ \E p \in (IF Dispatches(v)
                         THEN Resolve(d.device_keys, secret_keys)
                         ELSE {<<>>}) :
                /\ payload' = p
                /\ resolved' = IF Dispatches(v)
                               THEN [resolved EXCEPT ![id] = p] ELSE resolved
                /\ data' = IF ~readOk THEN NoData
                           ELSE IF Dispatches(v) THEN DataAfterInjection(d, p)
                           ELSE d
            /\ current_time' = IF v \in Classified THEN now ELSE 0
            /\ evalId' = IF v \in Classified THEN id ELSE 0
            /\ sentId' = IF Dispatches(v) THEN id ELSE 0
            /\ attempt' = IF Dispatches(v) THEN 1 ELSE 0
            /\ pc' = CASE Dispatches(v) -> "send"
                       [] v = "Uncaught" -> "aborted"
                       [] OTHER -> "loop"
            /\ idx' = IF Dispatches(v) \/ v = "Uncaught" THEN idx ELSE idx + 1
    /\ success' = FALSE
    /\ attempts' = 0
    /\ delays' = 0
    /\ saves' = 0
    /\ lastKind' = "none"
    /\ UNCHANGED <<impl, env_keys, store, now, config_files, files_changed,
                   summary, secret_keys, ok2xx, wfail, stored, tally>>

\* One pass of the retry loop: send the request, look at the answer; after
\* the last pass without success, the final failure line.
SendRequest ==
    /\ pc = "send"
    /\ \E o \in Outcomes :
        LET id == config_files[idx] IN
        /\ attempts' = attempts + 1
        /\ tally' = IF tally.on THEN [tally EXCEPT !.sent = @ + 1] ELSE tally
        /\ lastKind' = Kind(o)
        /\ ok2xx' = [ok2xx EXCEPT ![id] = IF Kind(o) = "2xx" THEN @ + 1 ELSE @]
        /\ CASE Answer(o) = "success" ->
                    /\ success' = TRUE
                    /\ data' = Stamp(data, current_time)
                    /\ outcome' = [outcome EXCEPT ![id] = "Delivered"]
                    /\ pc' = "save"
                    /\ idx' = idx
             [] Answer(o) = "failure" /\ RetryLeft(attempt) ->
                    /\ pc' = "sleep"
                    /\ idx' = idx
                    /\ UNCHANGED <<success, data, outcome>>
             [] Answer(o) = "failure" /\ ~RetryLeft(attempt) ->
                    /\ pc' = "loop"
                    /\ idx' = idx + 1
                    /\ outcome' = [outcome EXCEPT ![id] = "Failed"]
                    /\ UNCHANGED <<success, data>>
             [] OTHER ->
                    /\ pc' = "aborted"
                    /\ UNCHANGED <<idx, success, data, outcome>>
    /\ UNCHANGED <<impl, env_keys, store, now, config_files, current_time,
                   attempt, files_changed, summary, secret_keys, payload,
                   resolved, verdict, evalId, sentId, delays, saves, wfail,
                   stored>>

\* time.sleep(RETRY_DELAY), then the next value of attempt.
Sleep ==
    /\ pc = "sleep"
    /\ delays' = delays + 1
    /\ tally' = IF tally.on THEN [tally EXCEPT !.slept = @ + 1] ELSE tally
    /\ attempt' = attempt + 1
    /\ pc' = "send"
    /\ UNCHANGED <<impl, env_keys, store, now, config_files, idx, data,
                   current_time, success, files_changed, summary, secret_keys,
                   payload, resolved, verdict, outcome, evalId, sentId,
                   attempts, saves, lastKind, ok2xx, wfail, stored>>

\* Write the stamped record back; the write may fail.
SaveConfig ==
    /\ pc = "save"
    /\ \E written \in BOOLEAN :
        LET id == config_files[idx] IN
        /\ written \/ SumTo(wfail, Len(wfail)) < MaxWriteFails
        /\ saves' = saves + 1
        /\ stored' = (stored \/ written)
        /\ IF written
           THEN /\ store' = [store EXCEPT ![id] = data]
                /\ files_changed' = TRUE
                /\ pc' = "loop"
                /\ idx' = idx + 1
                /\ wfail' = wfail
           ELSE /\ store' = store
                /\ files_changed' = files_changed
                /\ wfail' = [wfail EXCEPT ![id] = @ + 1]
                /\ pc' = IF SaveErrorCaught THEN "loop" ELSE "aborted"
                /\ idx' = IF SaveErrorCaught THEN idx + 1 ELSE idx
    /\ UNCHANGED <<impl, env_keys, now, config_files, data, current_time,
                   attempt, success, summary, secret_keys, payload, resolved,
                   verdict, outcome, evalId, sentId, attempts, delays, lastKind,
                   ok2xx, tally>>

\* After the last record: the end-of-run line.
Summary ==
    /\ pc = "loop"
    /\ idx > Len(config_files)
    /\ summary' = IF files_changed THEN "changed" ELSE "unchanged"
    /\ pc' = "done"
    /\ UNCHANGED <<impl, env_keys, store, now, config_files, idx, data,
                   current_time, attempt, success, files_changed, secret_keys,
                   payload, ghost>>

Next ==
    \/ Tick
    \/ StartRun
    \/ NextRecord
    \/ SendRequest
    \/ Sleep
    \/ SaveConfig
    \/ Summary

Spec == Init /\ [][Next]_vars

\* ------------------------------------------- the runner with keys configured
\* Values of the environment variable: the two aliases of the map lead to a
\* key and to a value that is itself an alias.
CredEnvs ==
    {Keys("unset", <<>>, <<>>),
     Keys("malformed", <<>>, <<>>),
     Keys("other", <<>>, <<>>),
     Keys("list", <<"K1", "K2">>, <<>>),
     Keys("map", <<>>, <<>>),
     Keys("map", <<>>, <<Pair("iphone", "K1"), Pair("K1", "K2")>>)}

\* Declared device_keys: none, two aliases of which one is unknown, and a
\* list with a repeated entry that is also a key of the list form.
DeclaredLists == {<<>>, <<"iphone", "watch">>, <<"K1", "iphone", "K1">>}

CredRecords ==
    {[Rec(FALSE, "ok", 60, "UTC") EXCEPT !.device_keys = k] : k \in DeclaredLists}

\* One due record with declared keys, under every value of the environment.
InitCred ==
    /\ impl \in Implementations
    /\ env_keys \in CredEnvs
    /\ store \in [{1} -> CredRecords]
    /\ now = FirstInstant
    /\ pc = "idle"
    /\ config_files = <<>>
    /\ idx = 1
    /\ data = NoData
    /\ current_time = 0
    /\ attempt = 0
    /\ success = FALSE
    /\ files_changed = FALSE
    /\ summary = "none"
    /\ secret_keys = Keys("list", <<>>, <<>>)
    /\ payload = <<>>
    /\ resolved = EmptyOf(Len(store))
    /\ verdict = NoneOf(Len(store))
    /\ outcome = NoneOf(Len(store))
    /\ evalId = 0
    /\ sentId = 0
    /\ attempts = 0
    /\ delays = 0
    /\ saves = 0
    /\ lastKind = "none"
    /\ ok2xx = ZeroOf(Len(store))
    /\ wfail = ZeroOf(Len(store))
    /\ stored = FALSE
    /\ tally = Tally(FALSE, 0, 0)

SpecCred == InitCred /\ [][Next]_vars

\* ------------------------------------------ the runner with its work counted
\* Records of the counted runs: one that is done, one that is due, one
\* without a trigger time and one with an unknown zone.
LiveRecords ==
    {Rec(TRUE, "ok", 60, "UTC"),
     Rec(FALSE, "ok", 60, "UTC"),
     Rec(FALSE, "missing", 0, "absent"),
     Rec(FALSE, "ok", 60, "Mars/Phobos")}

InitLive ==
    /\ impl \in Implementations
    /\ env_keys = Keys("unset", <<>>, <<>>)
    /\ \E n \in 0..NumRecords : store \in [1..n -> LiveRecords]
    /\ now = FirstInstant
    /\ pc = "idle"
    /\ config_files = <<>>
    /\ idx = 1
    /\ data = NoData
    /\ current_time = 0
    /\ attempt = 0
    /\ success = FALSE
    /\ files_changed = FALSE
    /\ summary = "none"
    /\ secret_keys = Keys("list", <<>>, <<>>)
    /\ payload = <<>>
    /\ resolved = EmptyOf(Len(store))
    /\ verdict = NoneOf(Len(store))
    /\ outcome = NoneOf(Len(store))
    /\ evalId = 0
    /\ sentId = 0
    /\ attempts = 0
    /\ delays = 0
    /\ saves = 0
    /\ lastKind = "none"
    /\ ok2xx = ZeroOf(Len(store))
    /\ wfail = ZeroOf(Len(store))
    /\ stored = FALSE
    /\ tally = Tally(TRUE, 0, 0)

\* process_tasks runs in one thread that nothing holds up: the read, the
\* request (bounded by its timeout), the sleep and the write all return or
\* raise, so a step of the invocation that can be taken is taken.
Fairness ==
    /\ WF_vars(NextRecord)
    /\ WF_vars(SendRequest)
    /\ WF_vars(Sleep)
    /\ WF_vars(SaveConfig)
    /\ WF_vars(Summary)

\* One invocation, at any reading of the clock.
NextLive ==
    \/ Tick
    \/ pc = "idle" /\ StartRun
    \/ NextRecord
    \/ SendRequest
    \/ Sleep
    \/ SaveConfig
    \/ Summary

SpecLive == InitLive /\ [][NextLive]_vars /\ Fairness


\* ------------------------------------------------- vocabulary of the claims
\* The record of the iteration under way.
Cur == config_files[idx]

\* The retry loop or the completion of a record is under way.
InDelivery == pc \in {"send", "sleep", "save"}

\* Offset of the record's zone from UTC: Asia/Shanghai (the default when the
\* key is absent) is eight hours ahead.
ZoneSeconds(d) ==
    IF d.timezone \in {"absent", "Asia/Shanghai"} THEN 8 * 3600 ELSE 0

\* 60 * delta_minutes at clock reading t: t minus the trigger time in its zone.
DeltaSeconds(d, t) == t - (d.trigger_time.wall - ZoneSeconds(d))

\* -------------------------------------------------------------------- C1
\* C1 as stated: over all invocations together, no record has more than one
\* delivery attempt answered with a 2xx status, whatever the collaborators do.
C1_AtMostOne2xx == \A r \in DOMAIN store : ok2xx[r] <= 1

\* C1 (amended): over all invocations together, the attempts of a record
\* answered with a 2xx status are at most one more than the persist calls that
\* failed for it; a record whose stored flag is true got its last one.
C1_AtMostOne2xxPerPersist ==
    \A r \in DOMAIN store :
        /\ ok2xx[r] <= 1 + wfail[r]
        /\ ok2xx[r] = 1 + wfail[r] => (store[r].executed \/ (pc = "save" /\ Cur = r))

C1_Witness ==
    \E r \in DOMAIN store : ok2xx[r] = 2 /\ wfail[r] = 1 /\ store[r].executed

\* -------------------------------------------------------------------- C2
\* C2: a record whose stored executed flag is true is left alone by every
\* step: no request and no persist call is made for it, the stored record
\* (its flag included) does not change, and a visit that reads it skips it
\* without parsing its times, whatever they are.
C2_ExecutedTerminal ==
    [][\A r \in DOMAIN store : store[r].executed =>
          /\ store'[r] = store[r]
          /\ ok2xx'[r] = ok2xx[r]
          /\ wfail'[r] = wfail[r]
          /\ ~(InDelivery /\ Cur = r)
          /\ ~(InDelivery' /\ Cur' = r)
          /\ (pc = "loop" /\ idx <= Len(config_files) /\ Cur = r) =>
                /\ verdict'[r] \in {"AlreadyDone", "ReadError"}
                /\ pc' = "loop"
                /\ idx' = idx + 1]_vars

C2_Witness ==
    \E r \in DOMAIN store :
        /\ store[r].executed
        /\ store[r].trigger_time.kind = "malformed"
        /\ store[r].timezone = "Mars/Phobos"
        /\ verdict[r] = "AlreadyDone"
        /\ pc = "done"

\* -------------------------------------------------------------------- C3
\* C3: a record classified at clock reading current_time is NotYetDue when
\* delta_minutes < 0, Eligible when 0 <= delta_minutes <= TOLERANCE_MINUTES
\* and Expired when delta_minutes > TOLERANCE_MINUTES; a non-executed record
\* that was read, with a parseable trigger time in a known zone, gets one of
\* the three.
C3_Classification ==
    /\ evalId # 0 =>
        LET delta == DeltaSeconds(store[evalId], current_time) IN
        /\ delta < 0 => verdict[evalId] = "NotYetDue"
        /\ (0 <= delta /\ delta <= TOLERANCE_MINUTES * 60) => verdict[evalId] = "Eligible"
        /\ delta > TOLERANCE_MINUTES * 60 => verdict[evalId] = "Expired"
    /\ \A r \in DOMAIN store :
        (/\ verdict[r] \notin {"none", "ReadError", "AlreadyDone"}
         /\ store[r].trigger_time.kind = "ok"
         /\ store[r].timezone \in {"absent", "UTC"})
            => verdict[r] \in {"NotYetDue", "Eligible", "Expired"}

\* the upper boundary: exactly TOLERANCE_MINUTES late is Eligible
C3_Witness ==
    /\ evalId # 0
    /\ DeltaSeconds(store[evalId], current_time) = TOLERANCE_MINUTES * 60
    /\ verdict[evalId] = "Eligible"

\* -------------------------------------------------------------------- C4
\* C4: a request or a persist call is made for a record only if its visit in
\* this invocation classified it Eligible, i.e. only from 0 to
\* TOLERANCE_MINUTES after its trigger time; a record classified NotYetDue or
\* Expired has no delivery and its executed flag is false.
C4_DispatchOnlyInWindow ==
    /\ InDelivery =>
        /\ verdict[Cur] = "Eligible"
        /\ sentId = Cur
        /\ 0 <= DeltaSeconds(store[Cur], current_time)
        /\ DeltaSeconds(store[Cur], current_time) <= TOLERANCE_MINUTES * 60
    /\ (attempts > 0 \/ saves > 0) => (sentId # 0 /\ verdict[sentId] = "Eligible")
    /\ \A r \in DOMAIN store :
        /\ outcome[r] # "none" => verdict[r] = "Eligible"
        /\ verdict[r] \in {"NotYetDue", "Expired"} =>
              /\ outcome[r] = "none"
              /\ sentId # r
              /\ ~store[r].executed

C4_Witness ==
    \E r1, r2 \in DOMAIN store :
        /\ verdict[r1] = "Expired"
        /\ verdict[r2] = "NotYetDue"
        /\ pc = "done"
        /\ summary = "unchanged"

\* -------------------------------------------------------------------- C5
\* C5: the clock never going back, a record once classified Expired is
\* classified Expired by every later visit that classifies it; no request and
\* no persist call is made for it afterwards and the stored record stays as
\* it is, executed false.
C5_ExpiredForGood ==
    [][\A r \in DOMAIN store : verdict[r] = "Expired" =>
          /\ verdict'[r] \in {"Expired", "ReadError"}
          /\ store'[r] = store[r]
          /\ ~store'[r].executed
          /\ ok2xx'[r] = ok2xx[r]
          /\ wfail'[r] = wfail[r]
          /\ ~(InDelivery' /\ Cur' = r)]_vars

\* a record Expired from the start, visited by two invocations: the second
\* record got its two 2xx answers in two different invocations
C5_Witness ==
    /\ Len(store) = 2
    /\ verdict[1] = "Expired"
    /\ ok2xx[2] = 2
    /\ pc = "done"

\* -------------------------------------------------------------------- C6
\* C6: the attempts of a delivery are numbered 1..MAX_RETRIES, starting at 1
\* for every record; the first 2xx answer ends the loop with Delivered; Failed
\* comes only after MAX_RETRIES failed attempts and MAX_RETRIES - 1 sleeps,
\* none of them after the last attempt.
C6_BoundedRetry ==
    /\ pc = "send" =>
        /\ attempt \in 1..MAX_RETRIES
        /\ attempts = attempt - 1
        /\ delays = attempt - 1
        /\ outcome[Cur] \in {"none", "Retrying"}
    /\ pc = "sleep" =>
        /\ attempt \in 1..(MAX_RETRIES - 1)
        /\ attempts = attempt
        /\ delays = attempt - 1
        /\ lastKind \in {"non2xx", "fault"}
    /\ lastKind = "2xx" =>
        /\ outcome[sentId] = "Delivered"
        /\ pc \notin {"send", "sleep"}
        /\ attempts \in 1..MAX_RETRIES
        /\ delays = attempts - 1
    /\ (sentId # 0 /\ outcome[sentId] = "Delivered") => lastKind = "2xx"
    /\ (sentId # 0 /\ outcome[sentId] = "Failed") =>
        /\ lastKind \in {"non2xx", "fault"}
        /\ attempts = MAX_RETRIES
        /\ delays = MAX_RETRIES - 1

\* the second record uses up a full budget after the first was delivered
C6_Witness ==
    /\ Len(store) = 2
    /\ outcome[1] = "Delivered"
    /\ sentId = 2
    /\ outcome[2] = "Failed"
    /\ attempts = MAX_RETRIES
    /\ delays = MAX_RETRIES - 1

\* -------------------------------------------------------------------- C7
\* C7: after an attempt that was answered with a transport fault the retry
\* loop is where it is after one answered with a non-2xx status: asleep
\* before the next attempt when attempts remain, finished with Failed after
\* the last one; the fault does not leave the loop as an exception.
C7_FaultsLikeStatuses ==
    (sentId # 0 /\ lastKind \in {"non2xx", "fault"}) =>
        /\ pc # "aborted"
        /\ attempts \in 1..MAX_RETRIES
        /\ attempts < MAX_RETRIES =>
            /\ outcome[sentId] \in {"none", "Retrying"}
            /\ \/ pc = "sleep" /\ attempt = attempts /\ delays = attempts - 1
               \/ pc = "send" /\ attempt = attempts + 1 /\ delays = attempts
        /\ attempts = MAX_RETRIES =>
            /\ outcome[sentId] = "Failed"
            /\ delays = MAX_RETRIES - 1
            /\ pc \in {"loop", "done"}

C7_Witness ==
    /\ sentId # 0
    /\ lastKind = "fault"
    /\ attempts = MAX_RETRIES
    /\ outcome[sentId] = "Failed"
    /\ pc = "done"

\* -------------------------------------------------------------------- C8
\* C8: after a delivery the record in memory is the record read with
\* executed = true and executed_at = current_time (as read in the record's
\* zone), both set; the persist collaborator is then called exactly once, and
\* a write that succeeds stores that record; every stored record has
\* executed_at exactly when it has executed = true.
C8_CompletionOnSuccess ==
    /\ pc = "save" =>
        /\ saves = 0
        /\ data = [store[Cur] EXCEPT
                        !.executed = TRUE,
                        !.executed_at = <<current_time + ZoneSeconds(store[Cur])>>]
    /\ (sentId # 0 /\ outcome[sentId] = "Delivered" /\ pc # "save") =>
        /\ saves = 1
        /\ \/ store[sentId] = data
           \/ wfail[sentId] > 0 /\ ~store[sentId].executed
    /\ saves > 0 => (saves = 1 /\ sentId # 0 /\ outcome[sentId] = "Delivered")
    /\ \A r \in DOMAIN store : store[r].executed <=> store[r].executed_at # <<>>

\* delivered at current_time, written later: executed_at is current_time
C8_Witness ==
    /\ sentId # 0
    /\ outcome[sentId] = "Delivered"
    /\ saves = 1
    /\ store[sentId].executed
    /\ store[sentId].executed_at = <<current_time>>
    /\ now > current_time
    /\ files_changed

\* -------------------------------------------------------------------- C9
\* C9: when the last of MAX_RETRIES attempts has failed the result is Failed,
\* the persist collaborator is not called and the stored record stays
\* executed = false; the next visit that reads the record inside its window
\* classifies it Eligible and starts the retry loop at attempt 1.
C9_FailedKeepsState ==
    [][/\ \A r \in DOMAIN store : outcome'[r] = "Failed" =>
            /\ ~store'[r].executed
            /\ store'[r].executed_at = <<>>
            /\ sentId' = r => saves' = 0
       /\ (sentId' # 0 /\ attempts' = MAX_RETRIES /\ lastKind' \in {"non2xx", "fault"}) =>
            /\ outcome'[sentId'] = "Failed"
            /\ saves' = 0
            /\ pc' # "save"
            /\ ~store'[sentId'].executed
       /\ (/\ pc = "loop" /\ idx <= Len(config_files)
           /\ outcome[Cur] = "Failed"
           /\ verdict'[Cur] # "ReadError"
           /\ 0 <= DeltaSeconds(store[Cur], now)
           /\ DeltaSeconds(store[Cur], now) <= TOLERANCE_MINUTES * 60) =>
            /\ verdict'[Cur] = "Eligible"
            /\ outcome'[Cur] = "Retrying"
            /\ pc' = "send"
            /\ attempt' = 1
            /\ attempts' = 0
            /\ delays' = 0]_vars

\* a record whose delivery failed is in the retry loop again, later
C9_Witness ==
    \E r \in DOMAIN store :
        /\ outcome[r] = "Retrying"
        /\ pc = "send"
        /\ Cur = r
        /\ attempt = 1
        /\ attempts = 0
        /\ DeltaSeconds(store[r], current_time) = TOLERANCE_MINUTES * 60

\* ------------------------------------------------------------------- C10
\* C10: no failure on a record ends the invocation: process_tasks is not left
\* by an exception, and a finished invocation has visited every discovered
\* record and printed its end-of-run summary.
C10_FailureIsolation ==
    /\ pc # "aborted"
    /\ (pc = "done" /\ config_files # <<>>) =>
        /\ idx > Len(config_files)
        /\ summary \in {"changed", "unchanged"}

\* ------------------------------------------------------------------- C11
\* C11: a non-executed record with a parseable trigger_time that names an
\* unknown time zone, once read, is classified NotYetDue, Eligible or Expired
\* (against the default zone), and its visit does not end the invocation.
C11_TimeZoneFallback ==
    \A r \in DOMAIN store :
        (/\ verdict[r] \notin {"none", "ReadError"}
         /\ ~store[r].executed
         /\ store[r].trigger_time.kind = "ok"
         /\ store[r].timezone \notin {"absent", "UTC", "Asia/Shanghai"}) =>
            /\ verdict[r] \in {"NotYetDue", "Eligible", "Expired"}
            /\ ~(pc = "aborted" /\ Cur = r)

\* ------------------------------------------------------------------- C12
\* C12: when the persist call for a delivered record has failed, process_tasks
\* has not been left by an exception, no request for that record is under way
\* or follows in this invocation, the stored record has executed = false and
\* the loop has moved on to the records after it.
C12_PersistFailureNotFatal ==
    (/\ sentId # 0
     /\ outcome[sentId] = "Delivered"
     /\ saves = 1
     /\ store[sentId] # data) =>
        /\ pc # "aborted"
        /\ pc \in {"loop", "done"}
        /\ ~store[sentId].executed
        /\ attempts \in 1..MAX_RETRIES
        /\ pc = "loop" => idx > sentId

\* ------------------------------------------------------------------- C13
\* C13: with a non-empty list of keys loaded, the device_keys sent are, as a
\* set, the union of the declared keys and the loaded keys, and no value is
\* there twice; with an empty list they are the declared keys as declared,
\* order and repetitions included.
C13_ListForm ==
    (InDelivery /\ secret_keys.form = "list") =>
        LET declared == store[Cur].device_keys
            loaded == secret_keys.keys
        IN  /\ loaded # <<>> =>
                /\ {payload[i] : i \in DOMAIN payload} =
                      {declared[i] : i \in DOMAIN declared}
                          \cup {loaded[i] : i \in DOMAIN loaded}
                /\ \A i, j \in DOMAIN payload : payload[i] = payload[j] => i = j
            /\ loaded = <<>> => payload = declared

\* K1 is declared twice and loaded as well: it is sent once
C13_Witness ==
    /\ pc = "send"
    /\ secret_keys = Keys("list", <<"K1", "K2">>, <<>>)
    /\ store[Cur].device_keys = <<"K1", "iphone", "K1">>
    /\ Len(payload) = 3

\* ------------------------------------------------------------------- C14
\* C14: with a map of keys loaded and a non-empty declared list, the
\* device_keys sent have the length of the declared list and hold at position
\* i the value the map gives the declared entry at i when it is an alias of
\* the map, and that entry itself otherwise (a value that is an alias too is
\* not looked up again); with an empty declared list and a non-empty map they
\* are the values of the map.
C14_MapForm ==
    (InDelivery /\ secret_keys.form = "map") =>
        LET declared == store[Cur].device_keys
            m == secret_keys.map
        IN  /\ declared # <<>> =>
                /\ Len(payload) = Len(declared)
                /\ \A i \in DOMAIN declared :
                    /\ \A k \in DOMAIN m :
                          m[k].alias = declared[i] => payload[i] = m[k].value
                    /\ (\A k \in DOMAIN m : m[k].alias # declared[i]) =>
                          payload[i] = declared[i]
            /\ (declared = <<>> /\ m # <<>>) =>
                payload = [k \in DOMAIN m |-> m[k].value]

\* iphone becomes K1 and stays K1, although K1 is an alias of the map too
C14_Witness ==
    /\ pc = "send"
    /\ secret_keys.form = "map"
    /\ store[Cur].device_keys = <<"K1", "iphone", "K1">>
    /\ payload = <<"K2", "K1", "K2">>

\* ------------------------------------------------------------------- C15
\* C15: no step changes a stored record in anything but executed and
\* executed_at: its device_keys stay the declared list, whatever keys were
\* injected into the payload and whether the delivery succeeded or failed;
\* the record held in memory during a delivery has the declared list too.
C15_NoCredentialLeak ==
    [][/\ \A r \in DOMAIN store :
            store'[r] = [store[r] EXCEPT !.executed = store'[r].executed,
                                         !.executed_at = store'[r].executed_at]
       /\ InDelivery' => data'.device_keys = store'[Cur'].device_keys]_vars

\* a record stored as executed whose payload carried other keys than declared
C15_Witness ==
    \E r \in DOMAIN store :
        /\ store[r].executed
        /\ store[r].device_keys = <<"iphone", "watch">>
        /\ resolved[r] = <<"K1", "watch">>
        /\ pc = "done"

\* ------------------------------------------------------------------- C16
\* C16: a record whose keys were resolved by an earlier delivery and are
\* resolved again, from the same declared list and the same loaded keys, gets
\* the same set of device_keys in the list form and the same sequence of
\* device_keys in the map form.
C16_ResolutionRepeats ==
    [][(/\ pc = "loop" /\ pc' = "send"
        /\ outcome[Cur] \in {"Failed", "Delivered"}
        /\ secret_keys' = secret_keys
        /\ store'[Cur].device_keys = store[Cur].device_keys) =>
            /\ secret_keys.form = "list" =>
                  {payload'[i] : i \in DOMAIN payload'} =
                      {resolved[Cur][i] : i \in DOMAIN resolved[Cur]}
            /\ secret_keys.form = "map" => payload' = resolved[Cur]]_vars

\* the second resolution for a record whose first delivery failed
C16_Witness ==
    /\ pc = "send"
    /\ outcome[Cur] = "Retrying"
    /\ secret_keys.form = "map"
    /\ payload = <<"K1", "watch">>

\* ------------------------------------------------------------------- C17
\* C17: the list an invocation works through holds the identifiers in
\* ascending (lexicographic) order and the loop goes through it front to
\* back, one position at a time; requests, sleeps and the persist call are
\* made for the record at the current position only, and once the loop has
\* moved on from a record, no step of its delivery follows in the invocation.
C17_SequentialOrdered ==
    [][/\ \A i, j \in DOMAIN config_files' :
            i < j => config_files'[i] < config_files'[j]
       /\ pc \in {"loop", "send", "sleep", "save"} =>
            /\ config_files' = config_files
            /\ idx' \in {idx, idx + 1}
       /\ (attempts' # attempts \/ delays' # delays \/ saves' # saves
              \/ ok2xx' # ok2xx \/ wfail' # wfail \/ store' # store) =>
            \/ pc = "loop" /\ pc' \in {"loop", "send", "aborted"}
               /\ attempts' = 0 /\ delays' = 0 /\ saves' = 0
               /\ ok2xx' = ok2xx /\ wfail' = wfail /\ store' = store
            \/ pc \in {"idle", "done", "aborted"} /\ idx' = 1
               /\ attempts' = 0 /\ delays' = 0 /\ saves' = 0
               /\ ok2xx' = ok2xx /\ wfail' = wfail /\ store' = store
            \/ /\ InDelivery
               /\ sentId = Cur
               /\ sentId' = sentId
               /\ \A r \in DOMAIN store : r # Cur =>
                    /\ store'[r] = store[r]
                    /\ ok2xx'[r] = ok2xx[r]
                    /\ wfail'[r] = wfail[r]
       /\ (InDelivery /\ idx' = idx + 1) => pc' = "loop"
       /\ InDelivery' => (sentId' = Cur' /\ (InDelivery => Cur' = Cur))]_vars

\* the second record is in its retry loop after the first used up its attempts
C17_Witness ==
    /\ impl = "main"
    /\ config_files = <<1, 2>>
    /\ outcome[1] = "Failed"
    /\ pc = "sleep"
    /\ Cur = 2
    /\ attempts = 2

\* ------------------------------------------------------------------- C18
\* C18: an invocation that found records and is over has reported "changed"
\* if it delivered a record and stored it with executed = true, and
\* "unchanged" if it stored none.
C18_AggregateSummary ==
    (pc \in {"done", "aborted"} /\ config_files # <<>>) =>
        /\ stored => summary = "changed"
        /\ ~stored => summary = "unchanged"

\* ------------------------------------------------------------------- C19
\* C19: a non-executed record whose trigger_time is missing, empty or not in
\* the format, once read, is skipped: no request and no persist call is made
\* for it, it stays stored as it is, and its visit does not end the
\* invocation.
C19_InertRecords ==
    \A r \in DOMAIN store :
        (/\ verdict[r] \notin {"none", "ReadError"}
         /\ ~store[r].executed
         /\ store[r].trigger_time.kind \in {"missing", "malformed"}) =>
            /\ verdict[r] \in {"Inert", "ParseError"}
            /\ outcome[r] = "none"
            /\ sentId # r
            /\ ok2xx[r] = 0
            /\ wfail[r] = 0
            /\ ~(pc = "aborted" /\ Cur = r)

\* ------------------------------------------------------------------- C20
\* C20: an invocation that found n records has sent at most n * MAX_RETRIES
\* requests and slept at most n * (MAX_RETRIES - 1) times, whatever the
\* answers were, and every invocation under way comes to its end.
C20_Terminates ==
    /\ [](/\ tally.sent <= Len(config_files) * MAX_RETRIES
          /\ tally.slept <= Len(config_files) * (MAX_RETRIES - 1))
    /\ (pc \in {"loop", "send", "sleep", "save"}) ~> (pc \in {"done", "aborted"})

\* every record used up its attempts: both counts are at their bound
C20_Witness ==
    /\ pc = "done"
    /\ Len(config_files) = NumRecords
    /\ tally.sent = NumRecords * MAX_RETRIES
    /\ tally.slept = NumRecords * (MAX_RETRIES - 1)
    /\ summary = "unchanged"

====
